---- MODULE Spec2Model ----
(***************************************************************************)
(* A model of backend/server.py: the auth endpoints (register, login),     *)
(* the identity resolver (get_current_user) and the protected endpoints    *)
(* (create_recipe, get_favorites, add_favorite, remove_favorite) over the  *)
(* three collections db.users, db.recipes and db.favorites.                *)
(*                                                                         *)
(* Every handler is an async function: each `await db...` is a point where *)
(* another request may run, so a handler is one action per storage call.   *)
(* Time is counted in ticks, TicksPerSecond of them to the second, because *)
(* a JWT carries its expiry in whole seconds while the clock is finer.     *)
(***************************************************************************)
EXTENDS Integers, FiniteSets, Sequences, Bags, TLC

VARIABLES now, users, recipes, favorites, nextId, issued, req, sent

vars == <<now, users, recipes, favorites, nextId, issued, req, sent>>

(***************************************************************************)
(* Bounds of the model.                                                    *)
(***************************************************************************)
TicksPerSecond == 2
Horizon == 1
MaxUsers == 2
MaxTokens == 2
MaxRecipes == 2
MaxFavorites == 2

Procs == {"p1", "p2"}
Emails == {"a@x.com", "b@x.com"}
Passwords == {"pw123", "hunter2"}
Names == {"A"}
Salts == {"s1"}
Bodies == {"dal"}

(***************************************************************************)
(* Program constants.                                                      *)
(***************************************************************************)
ACCESS_TOKEN_EXPIRE_MINUTES == 60 * 24 * 7

TTLSeconds == ACCESS_TOKEN_EXPIRE_MINUTES * 60
TTLTicks == TTLSeconds * TicksPerSecond

(***************************************************************************)
(* ObjectId and its string form.  An ObjectId is a number here; str(oid)   *)
(* is a well-formed id string, and ObjectId(s) raises InvalidId on a       *)
(* string that is not one.                                                 *)
(***************************************************************************)
SeedRecipeId == 1

FirstUserId == 101

StrOfObjectId(oid) == [wf |-> TRUE, hex |-> oid]

MalformedId == [wf |-> FALSE, hex |-> 0]

IsValidObjectId(s) == s.wf

ObjectIdOfStr(s) == s.hex

NoId == [wf |-> FALSE, hex |-> -1]

(***************************************************************************)
(* Credential hasher: bcrypt with a random salt.                           *)
(***************************************************************************)
hash_password(password, salt) == [salt |-> salt, digest |-> <<salt, password>>]

verify_password(plain_password, hashed_password) ==
    hashed_password.digest = <<hashed_password.salt, plain_password>>

(***************************************************************************)
(* Token codec.  jwt.encode writes a datetime `exp` as whole seconds since *)
(* the epoch (the fraction is dropped); jwt.decode checks the signature    *)
(* first and then compares `exp` with the wall clock (PyJWT 2: a token is  *)
(* expired once exp <= now).                                               *)
(***************************************************************************)
NoCredentials == [kind |-> "none", user_id |-> NoId, exp |-> 0]

GarbageToken == [kind |-> "garbage", user_id |-> NoId, exp |-> 0]

(* A codec that takes the lifetime in minutes for seconds. *)
create_access_token_Minutes(user_id, t) ==
    [kind |-> "jwt", user_id |-> user_id,
     exp |-> (t + ACCESS_TOKEN_EXPIRE_MINUTES * TicksPerSecond) \div TicksPerSecond]

create_access_token(user_id, t) ==
    [kind |-> "jwt", user_id |-> user_id,
     exp |-> (t + ACCESS_TOKEN_EXPIRE_MINUTES * 60 * TicksPerSecond) \div TicksPerSecond]

jwt_decode(token, t) ==
    IF token.kind # "jwt" THEN "InvalidTokenError"
    ELSE IF token.exp * TicksPerSecond <= t THEN "ExpiredSignatureError"
    ELSE "payload"

(***************************************************************************)
(* Storage.  find_one takes the first match in natural (insertion) order,  *)
(* which is the order of the generated _id.  db.favorites is a bag of      *)
(* {user_id, recipe_id} documents: the documents a (user, recipe) pair has *)
(* differ only in _id and created_at, which no handler reads, so           *)
(* delete_one takes one copy away.                                         *)
(***************************************************************************)
find_one(docs) == CHOOSE d \in docs : \A e \in docs : d._id <= e._id

UsersByEmail(email) == {u \in users : u.email = email}

UsersById(oid) == {u \in users : u._id = oid}

FavoritesOf(user_id, recipe_id) ==
    {f \in BagToSet(favorites) : f.user_id = user_id /\ f.recipe_id = recipe_id}

(***************************************************************************)
(* Responses.                                                              *)
(***************************************************************************)
NoBody == [kind |-> "none"]

HTTPException(status_code, detail) ==
    [status |-> status_code, detail |-> detail, body |-> NoBody]

Ok(body) == [status |-> 200, detail |-> "", body |-> body]

InternalServerError == HTTPException(500, "Internal Server Error")

NoResponse == [status |-> 0, detail |-> "", body |-> NoBody]

(* A response that hands out the stored user document's password field. *)
TokenResponse_WithHash(access_token, id, email, name) ==
    [access_token |-> access_token, token_type |-> "bearer",
     user |-> [id |-> id, email |-> email, name |-> name,
               password |-> IF UsersByEmail(email) = {} THEN hash_password("", "")
                            ELSE find_one(UsersByEmail(email)).password]]

TokenResponse(access_token, id, email, name) ==
    [access_token |-> access_token, token_type |-> "bearer",
     user |-> [id |-> id, email |-> email, name |-> name]]

(***************************************************************************)
(* security = HTTPBearer(): a request without a bearer Authorization       *)
(* header is rejected before get_current_user runs.  FastAPI answers 403   *)
(* up to 0.121 and 401 from 0.122 on; the repository pins no version.      *)
(***************************************************************************)
security(credentials) ==
    IF credentials.kind = "none"
    THEN {HTTPException(st, "Not authenticated") : st \in {401, 403}}
    ELSE {}

(***************************************************************************)
(* get_current_user: the user document, or the HTTPException raised.       *)
(***************************************************************************)
NoUser == 0

Resolved(oid) == [user |-> oid, error |-> NoResponse]

Rejected(error) == [user |-> NoUser, error |-> error]

(* A resolver that answers every failure with one message. *)
get_current_user_OneMessage(credentials, t) ==
    IF jwt_decode(credentials, t) # "payload"
       \/ credentials.user_id = NoId
       \/ UsersById(ObjectIdOfStr(credentials.user_id)) = {}
    THEN Rejected(HTTPException(401, "Could not validate credentials"))
    ELSE Resolved(find_one(UsersById(ObjectIdOfStr(credentials.user_id)))._id)

(* A resolver that honours only the newest token issued to a user. *)
get_current_user_NewestOnly(credentials, t) ==
    IF jwt_decode(credentials, t) = "ExpiredSignatureError"
    THEN Rejected(HTTPException(401, "Token has expired"))
    ELSE IF jwt_decode(credentials, t) = "InvalidTokenError"
            \/ \E b \in issued : /\ b.access_token.user_id = credentials.user_id
                                 /\ b.access_token.exp > credentials.exp
    THEN Rejected(HTTPException(401, "Could not validate credentials"))
    ELSE IF credentials.user_id = NoId
    THEN Rejected(HTTPException(401, "Invalid authentication credentials"))
    ELSE IF UsersById(ObjectIdOfStr(credentials.user_id)) = {}
    THEN Rejected(HTTPException(401, "User not found"))
    ELSE Resolved(find_one(UsersById(ObjectIdOfStr(credentials.user_id)))._id)

get_current_user(credentials, t) ==
    LET payload == jwt_decode(credentials, t) IN
    IF payload = "ExpiredSignatureError"
    THEN Rejected(HTTPException(401, "Token has expired"))
    ELSE IF payload = "InvalidTokenError"
    THEN Rejected(HTTPException(401, "Could not validate credentials"))
    ELSE IF credentials.user_id = NoId
    THEN Rejected(HTTPException(401, "Invalid authentication credentials"))
    ELSE IF UsersById(ObjectIdOfStr(credentials.user_id)) = {}
    THEN Rejected(HTTPException(401, "User not found"))
    ELSE Resolved(find_one(UsersById(ObjectIdOfStr(credentials.user_id)))._id)

(***************************************************************************)
(* Requests.  req[p] is the request connection p is serving (its inputs    *)
(* and the handler's position); sent is the exchange the latest step       *)
(* completed (the request and the response sent for it), NoExchange when   *)
(* it completed none; issued holds the token responses the clients have    *)
(* received so far.                                                        *)
(***************************************************************************)
ProtectedOps == {"create_recipe", "get_favorites", "add_favorite", "remove_favorite"}

UnknownRecipeId == StrOfObjectId(0)

RecipeIdInputs == {StrOfObjectId(SeedRecipeId), UnknownRecipeId, MalformedId}

Credentials == {NoCredentials, GarbageToken} \cup {b.access_token : b \in issued}

BlankRequest ==
    [pc |-> "idle", op |-> "none", cred |-> NoCredentials, email |-> "",
     password |-> "", name |-> "", recipe_id |-> NoId, body |-> "",
     user |-> NoUser, ids |-> {}]

NoExchange == [request |-> BlankRequest, response |-> NoResponse]

Respond(p, r, response) ==
    /\ req' = [req EXCEPT ![p] = BlankRequest]
    /\ sent' = [request |-> [r EXCEPT !.pc = "idle"], response |-> response]

Await(p, r, pc) ==
    /\ req' = [req EXCEPT ![p] = [r EXCEPT !.pc = pc]]
    /\ sent' = NoExchange

Init ==
    /\ now = 0
    /\ users = {}
    /\ recipes = {[_id |-> SeedRecipeId, name |-> "Vegetable Biryani", created_by |-> NoId]}
    /\ favorites = EmptyBag
    /\ nextId = [recipes |-> SeedRecipeId + 1, users |-> FirstUserId]
    /\ issued = {}
    /\ req = [p \in Procs |-> BlankRequest]
    /\ sent = NoExchange

(***************************************************************************)
(* POST /api/auth/register                                                 *)
(***************************************************************************)
(* A register that skips the existence check. *)
EmailRegistered_Unchecked(email) == FALSE

EmailRegistered(email) == UsersByEmail(email) # {}

RegisterFind(p, email, password, name) ==
    /\ req[p].pc = "idle"
    /\ LET r == [BlankRequest EXCEPT !.op = "register", !.email = email,
                                     !.password = password, !.name = name] IN
       IF EmailRegistered(email)
       THEN Respond(p, r, HTTPException(400, "Email already registered"))
       ELSE Await(p, r, "register_insert")
    /\ UNCHANGED <<now, users, recipes, favorites, nextId, issued>>

RegisterResponse(r, inserted_id, t) ==
    TokenResponse(create_access_token(StrOfObjectId(inserted_id), t),
                  StrOfObjectId(inserted_id), r.email, r.name)

(* An insert that fails on an email registered meanwhile (a unique index). *)
RegisterInsert_UniqueIndex(p, salt) ==
    /\ req[p].pc = "register_insert"
    /\ nextId.users < FirstUserId + MaxUsers
    /\ LET r == req[p]
           body == RegisterResponse(r, nextId.users, now) IN
       IF EmailRegistered(r.email)
       THEN /\ Respond(p, r, InternalServerError)
            /\ UNCHANGED <<users, nextId, issued>>
       ELSE /\ Cardinality(issued \cup {body}) <= MaxTokens
            /\ users' = users \cup {[_id |-> nextId.users, email |-> r.email,
                                     password |-> hash_password(r.password, salt),
                                     name |-> r.name]}
            /\ nextId' = [nextId EXCEPT !.users = @ + 1]
            /\ issued' = issued \cup {body}
            /\ Respond(p, r, Ok(body))
    /\ UNCHANGED <<now, recipes, favorites>>

RegisterInsert(p, salt) ==
    /\ req[p].pc = "register_insert"
    /\ nextId.users < FirstUserId + MaxUsers
    /\ LET r == req[p]
           body == RegisterResponse(r, nextId.users, now) IN
       /\ Cardinality(issued \cup {body}) <= MaxTokens
       /\ users' = users \cup {[_id |-> nextId.users, email |-> r.email,
                                password |-> hash_password(r.password, salt),
                                name |-> r.name]}
       /\ nextId' = [nextId EXCEPT !.users = @ + 1]
       /\ issued' = issued \cup {body}
       /\ Respond(p, r, Ok(body))
    /\ UNCHANGED <<now, recipes, favorites>>

(***************************************************************************)
(* POST /api/auth/login                                                    *)
(***************************************************************************)
(* A login that tells an unknown email from a wrong password. *)
LoginResponse_NamesFactor(email, password, t) ==
    IF UsersByEmail(email) = {}
    THEN HTTPException(401, "User not found")
    ELSE IF ~verify_password(password, find_one(UsersByEmail(email)).password)
    THEN HTTPException(401, "Incorrect password")
    ELSE LET user == find_one(UsersByEmail(email)) IN
         Ok(TokenResponse(create_access_token(StrOfObjectId(user._id), t),
                          StrOfObjectId(user._id), user.email, user.name))

LoginResponse(email, password, t) ==
    IF UsersByEmail(email) = {}
       \/ ~verify_password(password, find_one(UsersByEmail(email)).password)
    THEN HTTPException(401, "Incorrect email or password")
    ELSE LET user == find_one(UsersByEmail(email)) IN
         Ok(TokenResponse(create_access_token(StrOfObjectId(user._id), t),
                          StrOfObjectId(user._id), user.email, user.name))

Login(p, email, password) ==
    /\ req[p].pc = "idle"
    /\ LET r == [BlankRequest EXCEPT !.op = "login", !.email = email,
                                     !.password = password]
           response == LoginResponse(email, password, now) IN
       /\ issued' = IF response.status = 200 THEN issued \cup {response.body} ELSE issued
       /\ Cardinality(issued') <= MaxTokens
       /\ Respond(p, r, response)
    /\ UNCHANGED <<now, users, recipes, favorites, nextId>>

(***************************************************************************)
(* Protected endpoints: Depends(get_current_user) runs before the body.    *)
(***************************************************************************)
ArgsOk(op, recipe_id, body) ==
    /\ (op = "create_recipe") => body \in Bodies
    /\ (op # "create_recipe") => body = ""
    /\ (op \in {"add_favorite", "remove_favorite"}) => recipe_id \in RecipeIdInputs
    /\ (op \notin {"add_favorite", "remove_favorite"}) => recipe_id = NoId

(* A guard that lets the body run after a failed resolution. *)
Authenticate_NoShortCircuit(p, op, cred, recipe_id, body) ==
    /\ req[p].pc = "idle"
    /\ ArgsOk(op, recipe_id, body)
    /\ LET r == [BlankRequest EXCEPT !.op = op, !.cred = cred,
                                     !.recipe_id = recipe_id, !.body = body] IN
       \/ \E e \in security(cred) : Respond(p, r, e)
       \/ /\ security(cred) = {}
          /\ Await(p, [r EXCEPT !.user = get_current_user(cred, now).user], op)
    /\ UNCHANGED <<now, users, recipes, favorites, nextId, issued>>

Authenticate(p, op, cred, recipe_id, body) ==
    /\ req[p].pc = "idle"
    /\ ArgsOk(op, recipe_id, body)
    /\ LET r == [BlankRequest EXCEPT !.op = op, !.cred = cred,
                                     !.recipe_id = recipe_id, !.body = body] IN
       \/ \E e \in security(cred) : Respond(p, r, e)
       \/ /\ security(cred) = {}
          /\ LET current_user == get_current_user(cred, now) IN
             IF current_user.user = NoUser
             THEN Respond(p, r, current_user.error)
             ELSE Await(p, [r EXCEPT !.user = current_user.user], op)
    /\ UNCHANGED <<now, users, recipes, favorites, nextId, issued>>

(* POST /api/recipes *)
(* A handler that credits the recipe to the first user on record. *)
RecipeDoc_FirstUser(r, oid) ==
    [_id |-> oid, name |-> r.body, created_by |-> StrOfObjectId(find_one(users)._id)]

RecipeDoc(r, oid) ==
    [_id |-> oid, name |-> r.body, created_by |-> StrOfObjectId(r.user)]

RecipeView(doc) ==
    [id |-> StrOfObjectId(doc._id), name |-> doc.name, created_by |-> doc.created_by]

CreateRecipe(p) ==
    /\ req[p].pc = "create_recipe"
    /\ Cardinality(recipes) < MaxRecipes
    /\ recipes' = recipes \cup {RecipeDoc(req[p], nextId.recipes)}
    /\ nextId' = [nextId EXCEPT !.recipes = @ + 1]
    /\ Respond(p, req[p], Ok(RecipeView(RecipeDoc(req[p], nextId.recipes))))
    /\ UNCHANGED <<now, users, favorites, issued>>

(* GET /api/favorites *)
FavoritesOfUser(user_id) == {f \in BagToSet(favorites) : f.user_id = user_id}

GetFavoritesFind(p) ==
    /\ req[p].pc = "get_favorites"
    /\ LET favs == FavoritesOfUser(StrOfObjectId(req[p].user)) IN
       IF \E fav \in favs : ~IsValidObjectId(fav.recipe_id)
       THEN Respond(p, req[p], InternalServerError)
       ELSE Await(p, [req[p] EXCEPT !.ids = {ObjectIdOfStr(fav.recipe_id) : fav \in favs}],
                  "get_favorites_recipes")
    /\ UNCHANGED <<now, users, recipes, favorites, nextId, issued>>

GetFavoritesRecipes(p) ==
    /\ req[p].pc = "get_favorites_recipes"
    /\ Respond(p, req[p],
               Ok([recipes |-> {RecipeView(doc) : doc \in {d \in recipes : d._id \in req[p].ids}}]))
    /\ UNCHANGED <<now, users, recipes, favorites, nextId, issued>>

(* POST /api/favorites *)
(* A handler that inserts without looking for an existing favorite. *)
AddFavoriteFind_Unchecked(p) ==
    /\ req[p].pc = "add_favorite"
    /\ Await(p, req[p], "add_favorite_insert")
    /\ UNCHANGED <<now, users, recipes, favorites, nextId, issued>>

AddFavoriteFind(p) ==
    /\ req[p].pc = "add_favorite"
    /\ IF FavoritesOf(StrOfObjectId(req[p].user), req[p].recipe_id) # {}
       THEN Respond(p, req[p], Ok([message |-> "Already in favorites"]))
       ELSE Await(p, req[p], "add_favorite_insert")
    /\ UNCHANGED <<now, users, recipes, favorites, nextId, issued>>

AddFavoriteInsert(p) ==
    /\ req[p].pc = "add_favorite_insert"
    /\ BagCardinality(favorites) < MaxFavorites
    /\ favorites' = favorites (+) SetToBag({[user_id |-> StrOfObjectId(req[p].user),
                                             recipe_id |-> req[p].recipe_id]})
    /\ Respond(p, req[p], Ok([message |-> "Added to favorites"]))
    /\ UNCHANGED <<now, users, recipes, nextId, issued>>

(* DELETE /api/favorites/{recipe_id} *)
(* A handler whose delete filter names the recipe but not the user. *)
RemoveFavorite_AnyUser(p) ==
    /\ req[p].pc = "remove_favorite"
    /\ LET matches == {f \in BagToSet(favorites) : f.recipe_id = req[p].recipe_id} IN
       IF matches = {}
       THEN /\ favorites' = favorites
            /\ Respond(p, req[p], HTTPException(404, "Favorite not found"))
       ELSE /\ favorites' = favorites (-) SetToBag({CHOOSE f \in matches : TRUE})
            /\ Respond(p, req[p], Ok([message |-> "Removed from favorites"]))
    /\ UNCHANGED <<now, users, recipes, nextId, issued>>

RemoveFavorite(p) ==
    /\ req[p].pc = "remove_favorite"
    /\ LET matches == FavoritesOf(StrOfObjectId(req[p].user), req[p].recipe_id) IN
       IF matches = {}
       THEN /\ favorites' = favorites
            /\ Respond(p, req[p], HTTPException(404, "Favorite not found"))
       ELSE /\ favorites' = favorites (-) SetToBag(matches)
            /\ Respond(p, req[p], Ok([message |-> "Removed from favorites"]))
    /\ UNCHANGED <<now, users, recipes, nextId, issued>>

(***************************************************************************)
(* The wall clock (datetime.utcnow, and the clock jwt.decode reads).  It   *)
(* moves by one tick, or by just under the token lifetime at once; the     *)
(* model follows it through the first Horizon ticks and through the ticks  *)
(* around the expiry of the tokens issued in them.                         *)
(***************************************************************************)
Delays == {1, TTLTicks - 1}

Observed(t) == t <= Horizon \/ (TTLTicks - 1 <= t /\ t <= TTLTicks + Horizon)

Advance(d) ==
    /\ Observed(now + d)
    /\ now' = now + d
    /\ sent' = NoExchange
    /\ UNCHANGED <<users, recipes, favorites, nextId, issued, req>>

(***************************************************************************)
(* The endpoints, grouped.  `serial` makes a request start only when no    *)
(* other is in flight; the sets are the inputs the clients draw from.      *)
(***************************************************************************)
Quiet == \A p \in Procs : req[p].pc = "idle"

AuthEndpoints(serial, passwords) ==
    \/ \E p \in Procs, email \in Emails, password \in passwords, name \in Names :
          (serial => Quiet) /\ RegisterFind(p, email, password, name)
    \/ \E p \in Procs, salt \in Salts : RegisterInsert(p, salt)
    \/ \E p \in Procs, email \in Emails, password \in passwords :
          (serial => Quiet) /\ Login(p, email, password)

RecipeEndpoints(serial) ==
    \/ \E p \in Procs, cred \in Credentials, body \in Bodies :
          (serial => Quiet) /\ Authenticate(p, "create_recipe", cred, NoId, body)
    \/ \E p \in Procs : CreateRecipe(p)

FavoriteEndpoints(serial, recipe_ids) ==
    \/ \E p \in Procs, cred \in Credentials :
          (serial => Quiet) /\ Authenticate(p, "get_favorites", cred, NoId, "")
    \/ \E p \in Procs, op \in {"add_favorite", "remove_favorite"}, cred \in Credentials,
          recipe_id \in recipe_ids :
          (serial => Quiet) /\ Authenticate(p, op, cred, recipe_id, "")
    \/ \E p \in Procs : GetFavoritesFind(p)
    \/ \E p \in Procs : GetFavoritesRecipes(p)
    \/ \E p \in Procs : AddFavoriteFind(p)
    \/ \E p \in Procs : AddFavoriteInsert(p)
    \/ \E p \in Procs : RemoveFavorite(p)

Clock == \E d \in Delays : Advance(d)

(***************************************************************************)
(* The users collection lives in a database this program shares with its   *)
(* operators: a user document can be removed behind the program's back,    *)
(* which is the case get_current_user answers with "User not found".       *)
(***************************************************************************)
UserRemoved(u) ==
    /\ u \in users
    /\ users' = users \ {u}
    /\ sent' = NoExchange
    /\ UNCHANGED <<now, recipes, favorites, nextId, issued, req>>

Storage == \E u \in users : UserRemoved(u)

(* The program: every endpoint, requests overlapping freely. *)
Next ==
    \/ AuthEndpoints(FALSE, Passwords)
    \/ RecipeEndpoints(FALSE)
    \/ FavoriteEndpoints(FALSE, RecipeIdInputs)
    \/ Clock

Spec == Init /\ [][Next]_vars

(* Registration, login and recipe creation, requests overlapping. *)
NextAuth == AuthEndpoints(FALSE, Passwords) \/ RecipeEndpoints(FALSE) \/ Clock

SpecAuth == Init /\ [][NextAuth]_vars

(* Registration, login and the favorites endpoints, one request at a time. *)
NextSerial == AuthEndpoints(TRUE, Passwords) \/ FavoriteEndpoints(TRUE, RecipeIdInputs)

SpecSerial == Init /\ [][NextSerial]_vars

(* Every endpoint, one request at a time, with the clock and with user     *)
(* documents removed from storage; one password and one recipe id.         *)
NextGuard ==
    \/ AuthEndpoints(TRUE, {"pw123"})
    \/ RecipeEndpoints(TRUE)
    \/ FavoriteEndpoints(TRUE, {StrOfObjectId(SeedRecipeId)})
    \/ Clock
    \/ Storage

SpecGuard == Init /\ [][NextGuard]_vars

(* Registration and login one at a time, the favorites endpoints           *)
(* overlapping; one password, a recipe on record and one that is not.      *)
NextFavorites ==
    \/ AuthEndpoints(TRUE, {"pw123"})
    \/ FavoriteEndpoints(FALSE, {StrOfObjectId(SeedRecipeId), UnknownRecipeId})

SpecFavorites == Init /\ [][NextFavorites]_vars

(***************************************************************************)
(* What the claims read.                                                   *)
(***************************************************************************)
EmailTaken == [status |-> 400, detail |-> "Email already registered", body |-> [kind |-> "none"]]

InvalidCredentials ==
    [status |-> 401, detail |-> "Incorrect email or password", body |-> [kind |-> "none"]]

UsersWithEmail(email) == {u \in users : u.email = email}

Completed(op) == sent.request.op = op /\ sent.response.status # 0

(* C1: served one after the other, a register call for an email that is
   already registered answers 400 "Email already registered" and inserts
   nothing, and the users collection never holds two records with one email. *)
C1_RegisterSameEmailOnce ==
    /\ [](\A u \in users, v \in users : u.email = v.email => u = v)
    /\ [](Completed("register") =>
            /\ sent.response.status \in {200, 400}
            /\ Cardinality(UsersWithEmail(sent.request.email)) = 1)
    /\ [][(sent'.request.op = "register" /\ sent'.response.status # 0
           /\ UsersWithEmail(sent'.request.email) # {})
          => (sent'.response = EmailTaken /\ users' = users)]_vars

C1_Witness ==
    /\ Completed("register")
    /\ sent.response = EmailTaken
    /\ Cardinality(users) = 2
    /\ Cardinality(UsersWithEmail(sent.request.email)) = 1

(* C2: a login with an email no user has and a login with a wrong password
   get the same response, 401 "Incorrect email or password", and no login
   changes the users collection. *)
LoginFails(email, password) ==
    \/ UsersWithEmail(email) = {}
    \/ \A u \in UsersWithEmail(email) :
          (\A v \in UsersWithEmail(email) : u._id <= v._id)
             => u.password.digest # <<u.password.salt, password>>

C2_LoginFailureUniform ==
    /\ [](Completed("login") =>
            (LoginFails(sent.request.email, sent.request.password)
               <=> sent.response = InvalidCredentials))
    /\ [](\A e1 \in Emails, e2 \in Emails, p1 \in Passwords, p2 \in Passwords :
            (LoginFails(e1, p1) /\ LoginFails(e2, p2))
               => LoginResponse(e1, p1, now) = LoginResponse(e2, p2, now))
    /\ [][(sent'.request.op = "login" /\ sent'.response.status # 0)
          => users' = users]_vars

C2_Witness ==
    /\ Completed("login")
    /\ sent.response = InvalidCredentials
    /\ UsersWithEmail(sent.request.email) # {}
    /\ \E e \in Emails : UsersWithEmail(e) = {}

(* C3: when the identity resolver fails for a protected endpoint, the
   request ends there with an unauthorized response: users, recipes and
   favorites are as before, and a handler body only ever runs for a token
   that decoded and whose user was found. *)
ResolverFailed(x) ==
    /\ x.request.op \in {"create_recipe", "get_favorites", "add_favorite", "remove_favorite"}
    /\ x.response.status # 0
    /\ x.request.user = 0

InBody(r) ==
    r.pc \in {"create_recipe", "get_favorites", "get_favorites_recipes",
              "add_favorite", "add_favorite_insert", "remove_favorite"}

C3_FailedResolverNoEffect ==
    /\ [](ResolverFailed(sent) =>
            /\ sent.response.status \in {401, 403}
            /\ \A p \in Procs : ~InBody(req[p]))
    /\ [][ResolverFailed(sent') =>
            /\ users' = users
            /\ recipes' = recipes
            /\ favorites' = favorites]_vars
    /\ [][\A p \in Procs : (~InBody(req[p]) /\ InBody(req'[p])) =>
            /\ req'[p].cred.kind = "jwt"
            /\ req'[p].cred.exp * TicksPerSecond > now
            /\ \E u \in users : /\ u._id = req'[p].user
                                /\ req'[p].cred.user_id = [wf |-> TRUE, hex |-> u._id]]_vars

C3_Witness ==
    /\ ResolverFailed(sent)
    /\ sent.request.op = "add_favorite"
    /\ sent.response.detail = "Token has expired"
    /\ favorites # EmptyBag
    /\ Cardinality(recipes) = 2

(* C4 as stated: every failed resolution gets the same response, 401 with
   one message, whatever the reason. *)
Unauthorized(cred) ==
    IF security(cred) # {} THEN security(cred)
    ELSE IF get_current_user(cred, now).user = NoUser THEN {get_current_user(cred, now).error}
    ELSE {}

Reason(cred) ==
    IF cred.kind = "none" THEN "Not authenticated"
    ELSE IF cred.kind = "garbage" THEN "Could not validate credentials"
    ELSE IF cred.exp * TicksPerSecond <= now THEN "Token has expired"
    ELSE "User not found"

SevenDays == 7 * 24 * 60 * 60

DecodesUntilExpiry ==
    \A b \in issued :
       LET token == b.access_token IN
       /\ (now < token.exp * TicksPerSecond) =>
             (jwt_decode(token, now) = "payload" /\ token.user_id = b.user.id)
       /\ (now > token.exp * TicksPerSecond) =>
             jwt_decode(token, now) = "ExpiredSignatureError"

C5_ExpiryIsIssuePlusTTL ==
    /\ [][\A b \in issued' \ issued :
            b.access_token.exp * TicksPerSecond = now + SevenDays * TicksPerSecond]_vars
    /\ []DecodesUntilExpiry

(* C5 amended: a token issued at time T carries as expiry T cut to the
   whole second, plus 7 days; before that expiry it decodes to the user_id
   it was issued for, after it decoding fails with ExpiredSignatureError. *)
C5_ExpiryIsIssueSecondPlusTTL ==
    /\ [][\A b \in issued' \ issued :
            b.access_token.exp = (now \div TicksPerSecond) + SevenDays]_vars
    /\ []DecodesUntilExpiry

C5_Witness ==
    /\ Completed("login")
    /\ sent.response.status = 200
    /\ now % TicksPerSecond # 0
    /\ sent.response.body.access_token.exp * TicksPerSecond < now + SevenDays * TicksPerSecond
    /\ \E b \in issued : now > b.access_token.exp * TicksPerSecond
    /\ \E b \in issued : now < b.access_token.exp * TicksPerSecond

(* C6: POST /api/recipes with a token that register or login returned for
   user U, presented before it expires, succeeds, inserts exactly one recipe
   and credits it to U: created_by is the id of the user in the response
   that carried the token. *)
C6_TokenCreatesRecipeAsItsUser ==
    /\ [](\A b \in issued : b.access_token.user_id = b.user.id)
    /\ []((Completed("create_recipe") /\ sent.response.status # 200) =>
            \A b \in issued : b.access_token = sent.request.cred =>
               now >= b.access_token.exp * TicksPerSecond)
    /\ []((Completed("create_recipe") /\ sent.response.status = 200) =>
            /\ \E b \in issued : b.access_token = sent.request.cred
            /\ \A b \in issued : b.access_token = sent.request.cred =>
                  sent.response.body.created_by = b.user.id
            /\ \E doc \in recipes :
                  /\ [wf |-> TRUE, hex |-> doc._id] = sent.response.body.id
                  /\ doc.created_by = sent.response.body.created_by
                  /\ doc.name = sent.request.body)
    /\ [][(sent'.request.op = "create_recipe" /\ sent'.response.status = 200) =>
            /\ recipes \subseteq recipes'
            /\ Cardinality(recipes') = Cardinality(recipes) + 1]_vars

C6_Witness ==
    /\ Completed("create_recipe")
    /\ sent.response.status = 200
    /\ Cardinality(users) = 2
    /\ \E u \in users : /\ sent.response.body.created_by = [wf |-> TRUE, hex |-> u._id]
                        /\ \E v \in users : v._id < u._id

(* C7: a register or login response never carries the stored password hash
   or the plaintext password: a success is {access_token, token_type, user}
   with user = {id, email, name}, a failure is a status and a fixed message. *)
C7_NoPasswordInResponse ==
    (Completed("register") \/ Completed("login")) =>
       IF sent.response.status = 200
       THEN /\ DOMAIN sent.response.body = {"access_token", "token_type", "user"}
            /\ DOMAIN sent.response.body.user = {"id", "email", "name"}
            /\ DOMAIN sent.response.body.access_token = {"kind", "user_id", "exp"}
            /\ sent.response.body.user.email = sent.request.email
            /\ sent.response.body.user.name \in Names
            /\ sent.response.body.token_type = "bearer"
            /\ sent.response.detail = ""
       ELSE /\ sent.response.body = [kind |-> "none"]
            /\ sent.response.detail \in {"Email already registered", "Incorrect email or password"}

C7_Witness ==
    /\ Completed("login")
    /\ sent.response.status = 200
    /\ \E u \in users : /\ u.email = sent.request.email
                        /\ u.password.digest = <<u.password.salt, sent.request.password>>
                        /\ sent.response.body.user.id = [wf |-> TRUE, hex |-> u._id]

(* C9: the check and the insert of register are separate steps: a register
   that has passed its check inserts its user and answers 200 with a fresh
   id whatever has been inserted since, so two overlapping registers of one
   email leave two user records with that email and two token responses. *)
C9_RegisterCheckThenInsert ==
    [][\A p \in Procs :
         (req[p].pc = "register_insert" /\ req'[p].pc = "idle") =>
            /\ sent'.response.status = 200
            /\ sent'.response.body \in issued'
            /\ ~\E u \in users : [wf |-> TRUE, hex |-> u._id] = sent'.response.body.user.id
            /\ \E u \in users' \ users :
                  /\ u.email = req[p].email
                  /\ [wf |-> TRUE, hex |-> u._id] = sent'.response.body.user.id
                  /\ sent'.response.body.access_token.user_id = [wf |-> TRUE, hex |-> u._id]
            /\ Cardinality(users') = Cardinality(users) + 1]_vars

C9_Witness ==
    /\ \E u \in users, v \in users : u # v /\ u.email = v.email
    /\ \E a \in issued, b \in issued :
          /\ a.user.email = b.user.email
          /\ a.user.id # b.user.id
          /\ a.access_token.user_id # b.access_token.user_id
    /\ Completed("register")
    /\ sent.response.status = 200

(* C8: GET /api/favorites with a token that resolves to a user answers 200
   with a list, whatever favorites that user has added. *)
C8_GetFavoritesSucceeds ==
    (Completed("get_favorites") /\ sent.request.user # 0) =>
       /\ sent.response.status = 200
       /\ DOMAIN sent.response.body = {"recipes"}

(* C10: there is no revocation: a token stays accepted by the identity
   resolver at every time before its expiry while its user's record exists,
   whatever was registered, logged in (issuing further tokens) or done
   since. *)
UserOf(b) == {u \in users : [wf |-> TRUE, hex |-> u._id] = b.user.id}

C10_NoRevocation ==
    /\ \A b \in issued :
          (UserOf(b) # {} /\ now < b.access_token.exp * TicksPerSecond) =>
             /\ security(b.access_token) = {}
             /\ \A u \in UserOf(b) :
                   get_current_user(b.access_token, now) = [user |-> u._id, error |-> NoResponse]
    /\ \A b \in issued :
          (ResolverFailed(sent) /\ sent.request.cred = b.access_token) =>
             (UserOf(b) = {} \/ now >= b.access_token.exp * TicksPerSecond)

C10_Witness ==
    \E a \in issued, b \in issued :
       /\ a.user.id = b.user.id
       /\ a.access_token.exp < b.access_token.exp
       /\ UserOf(a) # {}
       /\ now < a.access_token.exp * TicksPerSecond
       /\ Completed("create_recipe")
       /\ sent.request.cred = a.access_token
       /\ sent.response.status = 200


(* C11: served one after the other, add_favorite for a recipe the user has
   already favorited answers "Already in favorites" and leaves the favorites
   collection as it was, so the collection never holds two records for one
   (user, recipe) pair, and a successful remove_favorite leaves the user
   with no favorite for that recipe. *)
HasFavorite(favs, user, recipe_id) ==
    \E f \in BagToSet(favs) : f.user_id = [wf |-> TRUE, hex |-> user] /\ f.recipe_id = recipe_id

C11_AddFavoriteIdempotent ==
    /\ [](\A f \in BagToSet(favorites) : CopiesIn(f, favorites) = 1)
    /\ [][(sent'.request.op = "add_favorite" /\ sent'.response.status = 200
           /\ HasFavorite(favorites, sent'.request.user, sent'.request.recipe_id))
          => (/\ sent'.response.body = [message |-> "Already in favorites"]
              /\ favorites' = favorites)]_vars
    /\ [][(sent'.request.op = "add_favorite" /\ sent'.response.status = 200)
          => HasFavorite(favorites', sent'.request.user, sent'.request.recipe_id)]_vars
    /\ [][(sent'.request.op = "remove_favorite" /\ sent'.response.status = 200)
          => (/\ HasFavorite(favorites, sent'.request.user, sent'.request.recipe_id)
              /\ ~HasFavorite(favorites', sent'.request.user, sent'.request.recipe_id))]_vars

C11_Witness ==
    /\ Completed("add_favorite")
    /\ sent.response.status = 200
    /\ sent.response.body = [message |-> "Already in favorites"]
    /\ HasFavorite(favorites, sent.request.user, sent.request.recipe_id)
    /\ BagCardinality(favorites) = 2

(* C12: favorites are isolated per user: a step changes the favorites
   collection only by completing an add_favorite or remove_favorite, and
   only in records whose user_id is the caller's id; get_favorites reads the
   caller's records only; and remove_favorite for a recipe the caller has
   not favorited answers 404 and changes nothing, whoever else has
   favorited that recipe. *)
Changed(favs1, favs2) ==
    {f \in BagToSet(favs1) \cup BagToSet(favs2) : CopiesIn(f, favs1) # CopiesIn(f, favs2)}

C12_FavoritesIsolated ==
    /\ [][\A f \in Changed(favorites, favorites') :
            /\ sent'.request.op \in {"add_favorite", "remove_favorite"}
            /\ sent'.response.status = 200
            /\ f.user_id = [wf |-> TRUE, hex |-> sent'.request.user]
            /\ f.recipe_id = sent'.request.recipe_id]_vars
    /\ [][\A p \in Procs :
            (req[p].pc = "get_favorites" /\ req'[p].pc = "get_favorites_recipes") =>
               req'[p].ids = {f.recipe_id.hex :
                                f \in {g \in BagToSet(favorites) :
                                         g.user_id = [wf |-> TRUE, hex |-> req[p].user]}}]_vars
    /\ [][(sent'.request.op = "remove_favorite" /\ sent'.request.user # 0
           /\ ~HasFavorite(favorites, sent'.request.user, sent'.request.recipe_id))
          => (/\ sent'.response.status = 404
              /\ sent'.response.detail = "Favorite not found"
              /\ favorites' = favorites)]_vars

C12_Witness ==
    /\ Completed("remove_favorite")
    /\ sent.response.status = 404
    /\ ~HasFavorite(favorites, sent.request.user, sent.request.recipe_id)
    /\ \E f \in BagToSet(favorites) :
          /\ f.recipe_id = sent.request.recipe_id
          /\ f.user_id # [wf |-> TRUE, hex |-> sent.request.user]

====
